---- MODULE Spec2Model ----
(***************************************************************************)
(* Model of the game state store (src/src/model/db.ts) and of the client   *)
(* synchronizer (src/src/components/GameUpdater.tsx).                       *)
(*                                                                         *)
(* SpecStore: getGameJSONById / saveGameJSONById calls running             *)
(* concurrently against the three store kinds.  Every SQL statement is one *)
(* atomic step of the database; the JavaScript that follows the awaited    *)
(* statement (it only reads locals and issues the next statement) is part  *)
(* of the same step.                                                       *)
(*                                                                         *)
(* SpecFault: the same calls against a backend whose                      *)
(* createGamesTableIfNotExists can reject.                                 *)
(*                                                                         *)
(* SpecView: one GameUpdater view: mount, renders with new props, unmount, *)
(* the ticks of its interval timers, the polls they issue and the answers  *)
(* to them, on every notification platform.  A render, the cleanup of the  *)
(* previous effect and the effect body that React runs for it are one      *)
(* step.                                                                   *)
(*                                                                         *)
(* SpecPoll: the same view on a platform without notifications, with       *)
(* every outcome of a poll: a response of any status, or a rejected fetch. *)
(***************************************************************************)
EXTENDS Integers, Sequences, FiniteSets, TLC

\* ------------------------------------------------------------------ bounds
\* number of store calls of one run
MaxCalls == 3
\* number of polls in flight at a time
MaxPolls == 2
\* largest gameStateId
MaxVersion == 1

\* ------------------------------------------------------------- store: data
StoreTypes == {"pg", "pg-deprecated", "local"}

\* session ids as character sequences: "", "a", "v2:a"
EmptyId == << >>
LegacyId == <<"a">>
V2Id == <<"v", "2", ":", "a">>
GameIds == {EmptyId, LegacyId, V2Id}

\* sessions "b" and "v2:b", which an earlier process may have saved
ResidentIds == {<<"b">>, <<"v", "2", ":", "b">>}

Procs == 1..MaxCalls

\* GameJSON values: objects {state: n}.  The store never looks into a payload,
\* so each call carries a payload of its own (9, 18, 27, ...), all different
\* from the payload of the resident sessions.
GameJSONOf(p) == [state |-> 9 * p]
GameJSONs == {GameJSONOf(p) : p \in Procs}
ResidentJSON == [state |-> 0]

VARIABLES
  storeUrlForType,  \* [StoreTypes -> BOOLEAN]: the endpoint is configured
  instanceCache,    \* [StoreTypes -> BOOLEAN]: _instanceCache[kind] is not null
  constructed,      \* [StoreTypes -> Nat]: runs of new PgDb(url) / new SqliteDb(url)
  tableExists,      \* [StoreTypes -> BOOLEAN]: the games table exists
  games,            \* [StoreTypes -> Seq([game_id, game])]: rows of the games table
  calls             \* [Procs -> call record]

storeVars ==
  <<storeUrlForType, instanceCache, constructed, tableExists, games, calls>>

VARIABLES
  mounted,          \* the GameUpdater component is mounted
  isGameOver,       \* prop
  activePlayerId,   \* prop
  playerId,         \* prop: the local player, NullPlayer for a spectator
  gameStateId,      \* prop
  isFirstLoadRef,   \* isFirstLoadRef.current
  timer,            \* the variable timer of the last effect run (its cleanup's)
  intervals,        \* live setInterval timers: [id, gameStateId of the callback]
  notification,     \* the platform: [api, ctorThrows]
  permission,       \* Notification.permission
  requestPending,   \* a permission prompt is open
  inflight,         \* [Versions -> Nat]: polls awaiting their response, by the
                    \* gameStateId they sent
  applied,          \* argument of the last onUpdate call, << >> before the first
  lastEffect,       \* observation: the last effect run: [fromPolling (a timer was
                    \* live when the render came), attempts, shown, raised]
  lastPoll,         \* observation: the updateGameState run that settled last:
                    \* [status, json, onUpdate (calls of it), rejected]
  overSinceMount,   \* observation: isGameOver was true at every render since mount
  timerPolled       \* observation: a timer tick issued a poll since mount

viewVars ==
  <<mounted, isGameOver, activePlayerId, playerId, gameStateId, isFirstLoadRef,
    timer, intervals, notification, permission, requestPending, inflight,
    applied, lastEffect, lastPoll, overSinceMount, timerPolled>>

vars == <<storeVars, viewVars>>

\* ------------------------------------------------------------ JSON (text)
Digits == <<"0", "1", "2", "3", "4", "5", "6", "7", "8", "9">>

RECURSIVE NatToChars(_)
NatToChars(n) ==
  IF n < 10 THEN <<Digits[n + 1]>>
  ELSE NatToChars(n \div 10) \o <<Digits[(n % 10) + 1]>>

DigitValue(c) == CHOOSE d \in 0..9 : Digits[d + 1] = c

IsDigit(c) == \E d \in 0..9 : Digits[d + 1] = c

RECURSIVE CharsToNat(_)
CharsToNat(s) ==
  IF Len(s) = 0 THEN 0
  ELSE 10 * CharsToNat(SubSeq(s, 1, Len(s) - 1)) + DigitValue(s[Len(s)])

ObjPrefix == <<"{", "\"", "s", "t", "a", "t", "e", "\"", ":">>

\* JSON.stringify of an object {state: n}
JSONstringify(v) == ObjPrefix \o NatToChars(v.state) \o <<"}">>

\* JSON.parse of a text; << >> stands for a SyntaxError (never stored by saveGame)
JSONparse(text) ==
  LET n == Len(text)
      p == Len(ObjPrefix)
  IN IF /\ n > p + 1
        /\ SubSeq(text, 1, p) = ObjPrefix
        /\ text[n] = "}"
        /\ \A i \in (p + 1)..(n - 1) : IsDigit(text[i])
     THEN <<[state |-> CharsToNat(SubSeq(text, p + 1, n - 1))]>>
     ELSE << >>

\* ------------------------------------------------------------------ router
NoDb == "none"

\* gameId.startsWith(prefix)
StartsWith(s, prefix) ==
  /\ Len(s) >= Len(prefix)
  /\ SubSeq(s, 1, Len(prefix)) = prefix

V2Prefix == <<"v", "2", ":">>

\* first kind of preferredOrder whose url is set, NoDb when the loop ends (throw)
RECURSIVE FirstConfigured(_, _)
FirstConfigured(urls, preferredOrder) ==
  IF preferredOrder = << >> THEN NoDb
  ELSE IF urls[Head(preferredOrder)] THEN Head(preferredOrder)
       ELSE FirstConfigured(urls, Tail(preferredOrder))

\* variant: the last kind of preferredOrder whose url is set
RECURSIVE LastConfigured(_, _)
LastConfigured(urls, preferredOrder) ==
  IF preferredOrder = << >> THEN NoDb
  ELSE LET rest == LastConfigured(urls, Tail(preferredOrder))
       IN IF rest # NoDb THEN rest
          ELSE IF urls[Head(preferredOrder)] THEN Head(preferredOrder) ELSE NoDb

getDbInstanceLast(urls, preferredOrder) == LastConfigured(urls, preferredOrder)

\* variant: falls back to any kind whose url is set instead of throwing
getDbInstanceAny(urls, preferredOrder) ==
  IF FirstConfigured(urls, preferredOrder) # NoDb
  THEN FirstConfigured(urls, preferredOrder)
  ELSE FirstConfigured(urls, <<"pg", "pg-deprecated", "local">>)

getDbInstance(urls, preferredOrder) == FirstConfigured(urls, preferredOrder)

\* variant: the two preferred orders exchanged
getDbForGameIdSwapped(urls, gameId) ==
  IF StartsWith(gameId, V2Prefix)
  THEN getDbInstance(urls, <<"pg-deprecated", "local">>)
  ELSE getDbInstance(urls, <<"pg", "local">>)

getDbForGameId(urls, gameId) ==
  IF StartsWith(gameId, V2Prefix)
  THEN getDbInstance(urls, <<"pg", "local">>)
  ELSE getDbInstance(urls, <<"pg-deprecated", "local">>)

\* variant: the constructor runs whether or not the cache holds an instance
ConstructsUncached(cache, urls, storeType) == urls[storeType]

\* getOrCreateDbInstance runs the constructor: !_instanceCache[storeType] and url
Constructs(cache, urls, storeType) == ~cache[storeType] /\ urls[storeType]

\* the cache after getOrCreateDbInstance(storeType)
getOrCreateDbInstance(cache, urls, storeType) ==
  IF Constructs(cache, urls, storeType)
  THEN [cache EXCEPT ![storeType] = TRUE]
  ELSE cache

\* ----------------------------------------------------------------- drivers
\* rows of a table selected by WHERE game_id = gameId, in table order
RECURSIVE WhereGameId(_, _)
WhereGameId(rows, gameId) ==
  IF rows = << >> THEN << >>
  ELSE IF Head(rows).game_id = gameId
       THEN <<Head(rows)>> \o WhereGameId(Tail(rows), gameId)
       ELSE WhereGameId(Tail(rows), gameId)

\* variant: the SELECT without its WHERE clause
SelectRowsNoWhere(rows, gameId) == rows

\* SELECT ... FROM games WHERE game_id = gameId
SelectRows(rows, gameId) == WhereGameId(rows, gameId)

\* PgDb.hasSavedGame: result.rows.length === 1
PgHasSavedGame(rows, gameId) == Len(SelectRows(rows, gameId)) = 1

\* SqliteDb.hasSavedGame: db.get gives the first row or undefined; row?.game_id
\* is tested for truthiness, and the empty string is falsy
SqliteHasSavedGame(rows, gameId) ==
  LET sel == SelectRows(rows, gameId)
  IN sel # << >> /\ Len(sel[1].game_id) > 0

IsSqlite(storeType) == storeType = "local"

hasSavedGame(storeType, rows, gameId) ==
  IF IsSqlite(storeType) THEN SqliteHasSavedGame(rows, gameId)
  ELSE PgHasSavedGame(rows, gameId)

\* PgDb.getGameJSONById: rows.length === 1 ? JSON.parse(rows[0].game) : null
PgGetGameJSONById(rows, gameId) ==
  LET sel == SelectRows(rows, gameId)
  IN IF Len(sel) = 1 THEN JSONparse(sel[1].game) ELSE << >>

\* SqliteDb.getGameJSONById: row?.game truthy ? JSON.parse(row.game) : null
SqliteGetGameJSONById(rows, gameId) ==
  LET sel == SelectRows(rows, gameId)
  IN IF sel # << >> /\ Len(sel[1].game) > 0 THEN JSONparse(sel[1].game) ELSE << >>

driverGetGameJSONById(storeType, rows, gameId) ==
  IF IsSqlite(storeType) THEN SqliteGetGameJSONById(rows, gameId)
  ELSE PgGetGameJSONById(rows, gameId)

\* variant: the table is created anew although it exists
CreateTableAnew(exists, rows) == << >>

\* CREATE TABLE IF NOT EXISTS games(...): the rows of the table afterwards
CreateTableIfNotExists(exists, rows) == IF exists THEN rows ELSE << >>

\* INSERT INTO games(game_id, game): PRIMARY KEY (game_id) rejects a second row
InsertViolatesKey(rows, gameId) == WhereGameId(rows, gameId) # << >>

\* variant: a games table without PRIMARY KEY (game_id)
InsertRowsNoKey(rows, gameId, gameJSON) ==
  Append(rows, [game_id |-> gameId, game |-> gameJSON])

\* the table after createGame; unchanged when the key constraint rejects the row
InsertRows(rows, gameId, gameJSON) ==
  IF InsertViolatesKey(rows, gameId) THEN rows
  ELSE Append(rows, [game_id |-> gameId, game |-> gameJSON])

\* variant: the two parameters of the UPDATE bound in the wrong order
UpdateRowsSwapped(rows, gameId, gameJSON) ==
  [i \in 1..Len(rows) |->
     IF rows[i].game_id = gameJSON THEN [rows[i] EXCEPT !.game = gameId]
     ELSE rows[i]]

\* UPDATE games SET game = gameJSON WHERE game_id = gameId
UpdateRows(rows, gameId, gameJSON) ==
  [i \in 1..Len(rows) |->
     IF rows[i].game_id = gameId THEN [rows[i] EXCEPT !.game = gameJSON]
     ELSE rows[i]]

\* ------------------------------------------------------------------- calls
IdleCall ==
  [pc |-> "idle", op |-> "none", gameId |-> EmptyId, gameJSON |-> << >>,
   db |-> NoDb, hasSavedGame |-> FALSE, result |-> "none", ret |-> << >>,
   doneBefore |-> {}, issued |-> << >>]

DoneCalls == {q \in Procs : calls[q].pc = "done"}

Configs == {u \in [StoreTypes -> BOOLEAN] : \E t \in StoreTypes : u[t]}

\* the rows an earlier process with the same endpoints left for the sessions
\* of ids: one row per session, in the table its id resolves to
RECURSIVE ResidentRows(_, _, _)
ResidentRows(urls, t, ids) ==
  IF ids = {} THEN << >>
  ELSE LET gameId == CHOOSE x \in ids : \A y \in ids : Len(x) <= Len(y)
           rest == ResidentRows(urls, t, ids \ {gameId})
       IN IF getDbForGameId(urls, gameId) = t
          THEN <<[game_id |-> gameId, game |-> JSONstringify(ResidentJSON)]>> \o rest
          ELSE rest

StoreInit ==
  /\ storeUrlForType \in Configs
  /\ instanceCache = [t \in StoreTypes |-> FALSE]
  /\ constructed = [t \in StoreTypes |-> 0]
  /\ \E ids \in {{}, ResidentIds} :
       games = [t \in StoreTypes |-> ResidentRows(storeUrlForType, t, ids)]
  /\ tableExists = [t \in StoreTypes |-> games[t] # << >>]
  /\ calls = [p \in Procs |-> IdleCall]

\* getGameJSONById / saveGameJSONById up to the first await: the router runs
\* synchronously; its throw rejects the promise of the async function.
\* Calls are started in the order of Procs, and the calls of one run address
\* one session: sessions are independent (their rows are disjoint), the
\* other sessions of the store are the resident rows of InitStore.
StartCall(p, op, gameId, gameJSON) ==
  /\ calls[p].pc = "idle"
  /\ p > 1 => calls[p - 1].pc # "idle"
  /\ \A q \in Procs : calls[q].pc # "idle" => calls[q].gameId = gameId
  /\ LET db == getDbForGameId(storeUrlForType, gameId)
     IN /\ instanceCache' =
             IF db = NoDb THEN instanceCache
             ELSE getOrCreateDbInstance(instanceCache, storeUrlForType, db)
        /\ constructed' =
             IF db # NoDb /\ Constructs(instanceCache, storeUrlForType, db)
             THEN [constructed EXCEPT ![db] = @ + 1]
             ELSE constructed
        /\ calls' = [calls EXCEPT ![p] =
             [IdleCall EXCEPT
                !.pc = IF db = NoDb THEN "done" ELSE "schema",
                !.op = op,
                !.gameId = gameId,
                !.gameJSON = gameJSON,
                !.db = db,
                !.result = IF db = NoDb THEN "NoBackendConfigured" ELSE "none",
                !.doneBefore = DoneCalls]]
  /\ UNCHANGED <<storeUrlForType, tableExists, games>>
  /\ UNCHANGED viewVars

StartSave(p) ==
  \E gameId \in GameIds : StartCall(p, "save", gameId, <<GameJSONOf(p)>>)

StartGet(p) ==
  \E gameId \in GameIds : StartCall(p, "get", gameId, << >>)

\* createGamesTableIfNotExists: CREATE TABLE IF NOT EXISTS games(...)
CreateGamesTableIfNotExists(p) ==
  /\ calls[p].pc = "schema"
  /\ tableExists' = [tableExists EXCEPT ![calls[p].db] = TRUE]
  /\ games' = [games EXCEPT ![calls[p].db] =
                 CreateTableIfNotExists(tableExists[calls[p].db], @)]
  /\ calls' = [calls EXCEPT
       ![p].pc = IF calls[p].op = "save" THEN "exists" ELSE "fetch",
       ![p].issued = Append(@, "ensureSchema")]
  /\ UNCHANGED <<storeUrlForType, instanceCache, constructed>>
  /\ UNCHANGED viewVars

\* saveGame: const hasSavedGame = await this.hasSavedGame(gameId)
HasSavedGame(p) ==
  /\ calls[p].pc = "exists"
  /\ tableExists[calls[p].db]
  /\ LET has == hasSavedGame(calls[p].db, games[calls[p].db], calls[p].gameId)
     IN calls' = [calls EXCEPT ![p].hasSavedGame = has,
                               ![p].pc = IF has THEN "update" ELSE "insert",
                               ![p].issued = Append(@, "exists")]
  /\ UNCHANGED <<storeUrlForType, instanceCache, constructed, tableExists, games>>
  /\ UNCHANGED viewVars

\* saveGame: await this.updateGame(gameId, gameJSON)
UpdateGame(p) ==
  /\ calls[p].pc = "update"
  /\ games' = [games EXCEPT ![calls[p].db] =
                 UpdateRows(@, calls[p].gameId, JSONstringify(calls[p].gameJSON[1]))]
  /\ calls' = [calls EXCEPT ![p].pc = "done", ![p].result = "ok",
                            ![p].issued = Append(@, "update")]
  /\ UNCHANGED <<storeUrlForType, instanceCache, constructed, tableExists>>
  /\ UNCHANGED viewVars

\* saveGame: await this.createGame(gameId, gameJSON)
CreateGame(p) ==
  /\ calls[p].pc = "insert"
  /\ LET rows == games[calls[p].db]
         next == InsertRows(rows, calls[p].gameId, JSONstringify(calls[p].gameJSON[1]))
     IN /\ games' = [games EXCEPT ![calls[p].db] = next]
        /\ calls' = [calls EXCEPT
             ![p].pc = "done",
             ![p].result = IF next = rows THEN "DuplicateKey" ELSE "ok",
             ![p].issued = Append(@, "insert")]
  /\ UNCHANGED <<storeUrlForType, instanceCache, constructed, tableExists>>
  /\ UNCHANGED viewVars

\* getGameJSONById: return db.getGameJSONById(gameId)
GetGameJSONById(p) ==
  /\ calls[p].pc = "fetch"
  /\ tableExists[calls[p].db]
  /\ LET got == driverGetGameJSONById(calls[p].db, games[calls[p].db], calls[p].gameId)
     IN calls' = [calls EXCEPT ![p].pc = "done",
                               ![p].result = IF got = << >> THEN "absent" ELSE "found",
                               ![p].ret = got,
                               ![p].issued = Append(@, "fetch")]
  /\ UNCHANGED <<storeUrlForType, instanceCache, constructed, tableExists, games>>
  /\ UNCHANGED viewVars

\* createGamesTableIfNotExists rejects: the backend is unavailable.  The
\* await in getGameJSONById / saveGameJSONById rethrows, the call ends.
CreateGamesTableFails(p) ==
  /\ calls[p].pc = "schema"
  /\ calls' = [calls EXCEPT ![p].pc = "done",
                            ![p].result = "BackendUnavailable",
                            ![p].issued = Append(@, "ensureSchema")]
  /\ UNCHANGED <<storeUrlForType, instanceCache, constructed, tableExists, games>>
  /\ UNCHANGED viewVars

NextStore ==
  \E p \in Procs :
    \/ StartSave(p)
    \/ StartGet(p)
    \/ CreateGamesTableIfNotExists(p)
    \/ HasSavedGame(p)
    \/ UpdateGame(p)
    \/ CreateGame(p)
    \/ GetGameJSONById(p)

\* ------------------------------------------------------------ view: data
Players == {"P1", "P2"}
NullPlayer == "null"
NoTimer == 0
Versions == 0..MaxVersion
Statuses == {200, 304, 500}
\* the status of a fetch that rejected: there is no response
NoResponse == 0

\* the platforms: no Notification API, the promise-based requestPermission,
\* the callback-based one (requestPermission() returns undefined), and one
\* whose requestPermission throws on every call; on some platforms the
\* Notification constructor throws
Notifications ==
  {[api |-> "unsupported", ctorThrows |-> FALSE],
   [api |-> "throwing", ctorThrows |-> FALSE]}
    \cup [api : {"promise", "callback"}, ctorThrows : BOOLEAN]

isNotificationsSupported == notification.api # "unsupported"

\* checkNotificationPromise: FALSE when requestPermission().then() throws
checkNotificationPromise == notification.api = "promise"

\* enableNotifications: whether a permission prompt is open afterwards; both
\* branches call requestPermission, which prompts while permission is default
enableNotifications(pending) ==
  IF ~isNotificationsSupported THEN pending
  ELSE IF checkNotificationPromise THEN (pending \/ permission = "default")
       ELSE (pending \/ permission = "default")

\* enableNotifications throws: checkNotificationPromise catches the throw of
\* requestPermission and returns false, the call at line 33 is outside any try
enableNotificationsThrows ==
  isNotificationsSupported /\ ~checkNotificationPromise
    /\ notification.api = "throwing"

\* variant: polling whenever the game is not over
ShouldPollIgnoringTurn(over, active, pid) == ~over

\* !isGameOver && !isActivePlayer, isActivePlayer = (activePlayerId === playerId)
ShouldPoll(over, active, pid) == ~over /\ active # pid

\* variant: the first-load test inverted
ShouldNotifyOnFirstLoad(isActivePlayer, isFirstLoad) == isActivePlayer /\ isFirstLoad

\* isActivePlayer && !isFirstLoadRef.current
ShouldNotify(isActivePlayer, isFirstLoad) == isActivePlayer /\ ~isFirstLoad

\* whether new Notification(...) is reached and does not throw
ShowsNotification ==
  isNotificationsSupported /\ permission = "granted" /\ ~notification.ctorThrows

\* variant: a cleanup that clears nothing
ClearIntervalNoop(live, t) == live

\* clearInterval(timer)
ClearInterval(live, t) == {i \in live : i.id # t}

NoProps ==
  /\ isGameOver' = FALSE
  /\ activePlayerId' = "P1"
  /\ playerId' = NullPlayer
  /\ gameStateId' = 0

ViewInit ==
  /\ mounted = FALSE
  /\ isGameOver = FALSE
  /\ activePlayerId = "P1"
  /\ playerId = NullPlayer
  /\ gameStateId = 0
  /\ isFirstLoadRef = TRUE
  /\ timer = NoTimer
  /\ intervals = {}
  /\ notification \in Notifications
  /\ permission = "default"
  /\ requestPending = FALSE
  /\ inflight = [v \in Versions |-> 0]
  /\ applied = << >>
  /\ lastEffect = [fromPolling |-> FALSE, attempts |-> 0, shown |-> 0,
                   raised |-> FALSE]
  /\ lastPoll = [status |-> NoResponse, json |-> << >>, onUpdate |-> 0,
                 rejected |-> FALSE]
  /\ overSinceMount = FALSE
  /\ timerPolled = FALSE

\* a handle setInterval has not given to a live timer
FreshTimer(live) ==
  CHOOSE h \in 1..(Cardinality(live) + 1) : \A i \in live : i.id # h

\* the effect body (lines 81-104) for the props over, active, pid, version,
\* run with the timers live and the first-load flag first
RunEffect(live, first, over, active, pid, version) ==
  LET poll == ShouldPoll(over, active, pid)
      notify == ~poll /\ ShouldNotify(active = pid, first)
  IN /\ requestPending' = enableNotifications(requestPending)
     /\ timer' = IF poll THEN FreshTimer(live) ELSE NoTimer
     /\ intervals' =
          IF poll THEN live \cup {[id |-> FreshTimer(live), gameStateId |-> version]}
          ELSE live
     /\ isFirstLoadRef' = FALSE
     /\ lastEffect' = [fromPolling |-> intervals # {},
                       attempts |-> IF notify THEN 1 ELSE 0,
                       shown |-> IF notify /\ ShowsNotification THEN 1 ELSE 0,
                       raised |-> FALSE]

\* the effect body left at line 81 by the throw of enableNotifications, run
\* with the timers live: no timer is set, line 104 is not reached, and React
\* unmounts the tree whose effect threw, discarding the instance
EffectThrows(live) ==
  /\ mounted' = FALSE
  /\ NoProps
  /\ timer' = NoTimer
  /\ intervals' = live
  /\ isFirstLoadRef' = TRUE
  /\ lastEffect' = [fromPolling |-> intervals # {}, attempts |-> 0, shown |-> 0,
                    raised |-> TRUE]
  /\ UNCHANGED <<requestPending, overSinceMount, timerPolled>>

\* first render of a new component instance and its effect
Mount(over, active, pid, version) ==
  /\ ~mounted
  /\ IF enableNotificationsThrows
     THEN EffectThrows(intervals)
     ELSE /\ mounted' = TRUE
          /\ isGameOver' = over
          /\ activePlayerId' = active
          /\ playerId' = pid
          /\ gameStateId' = version
          /\ RunEffect(intervals, TRUE, over, active, pid, version)
          /\ overSinceMount' = over
          /\ timerPolled' = FALSE
  /\ UNCHANGED <<notification, permission, inflight, applied, lastPoll>>
  /\ UNCHANGED storeVars

\* a render with new props: when isGameOver or activePlayerId changed, the
\* cleanup of the previous effect and then the effect body run.  playerId is
\* the identity of the viewing player and stays what it was at mount.
Render(over, active, version) ==
  /\ mounted
  /\ <<over, active, version>> # <<isGameOver, activePlayerId, gameStateId>>
  /\ IF <<over, active>> # <<isGameOver, activePlayerId>>
        /\ enableNotificationsThrows
     THEN EffectThrows(ClearInterval(intervals, timer))
     ELSE /\ isGameOver' = over
          /\ activePlayerId' = active
          /\ gameStateId' = version
          /\ overSinceMount' = (overSinceMount /\ over)
          /\ IF <<over, active>> # <<isGameOver, activePlayerId>>
             THEN RunEffect(ClearInterval(intervals, timer), isFirstLoadRef,
                            over, active, playerId, version)
             ELSE UNCHANGED <<timer, intervals, requestPending, isFirstLoadRef,
                              lastEffect>>
          /\ UNCHANGED <<mounted, playerId, timerPolled>>
  /\ UNCHANGED <<notification, permission, inflight, applied, lastPoll>>
  /\ UNCHANGED storeVars

\* unmount: the cleanup of the last effect runs, the instance is discarded
Unmount ==
  /\ mounted
  /\ mounted' = FALSE
  /\ intervals' = ClearInterval(intervals, timer)
  /\ timer' = NoTimer
  /\ isFirstLoadRef' = TRUE
  /\ NoProps
  /\ UNCHANGED <<notification, permission, requestPending, inflight, applied,
                 lastEffect, lastPoll, overSinceMount, timerPolled>>
  /\ UNCHANGED storeVars

RECURSIVE SumInflight(_)
SumInflight(vs) ==
  IF vs = {} THEN 0
  ELSE LET v == CHOOSE x \in vs : TRUE
       IN inflight[v] + SumInflight(vs \ {v})

\* updateGameState up to its await fetch(...), with the gameStateId of its closure
IssuePoll(version) ==
  /\ SumInflight(Versions) < MaxPolls
  /\ inflight' = [inflight EXCEPT ![version] = @ + 1]

\* a live interval fires: the updateGameState the effect run passed to setInterval
Tick(i) ==
  /\ i \in intervals
  /\ IssuePoll(i.gameStateId)
  /\ timerPolled' = TRUE
  /\ UNCHANGED <<mounted, isGameOver, activePlayerId, playerId, gameStateId,
                 isFirstLoadRef, timer, intervals, notification, permission,
                 requestPending, applied, lastEffect, lastPoll, overSinceMount>>
  /\ UNCHANGED storeVars

\* a child calls the updateGameState of GameUpdaterContext (the current one)
ContextUpdate ==
  /\ mounted
  /\ IssuePoll(gameStateId)
  /\ UNCHANGED <<mounted, isGameOver, activePlayerId, playerId, gameStateId,
                 isFirstLoadRef, timer, intervals, notification, permission,
                 requestPending, applied, lastEffect, lastPoll, overSinceMount,
                 timerPolled>>
  /\ UNCHANGED storeVars

\* variant: a payload is passed on only when its version is above the last one
AfterResponseIfNewer(last, status, version) ==
  IF status = 200 /\ (last = << >> \/ version > last[1]) THEN <<version>> ELSE last

\* lines 74-77: the argument of the last onUpdate call after a response with
\* status whose payload has version
AfterResponse(last, status, version) ==
  IF status = 200 THEN <<version>> ELSE last

\* the poll that sent sent settles: the fetch rejects (NoResponse) and with it
\* the promise of updateGameState, or it resolves with a response of status,
\* whose payload is read and passed to onUpdate when the status is 200
PollResponse(sent, status, version) ==
  /\ inflight[sent] > 0
  /\ inflight' = [inflight EXCEPT ![sent] = @ - 1]
  /\ applied' = AfterResponse(applied, status, version)
  /\ lastPoll' = [status |-> status,
                  json |-> IF status = 200 THEN <<version>> ELSE << >>,
                  onUpdate |-> IF status = 200 THEN 1 ELSE 0,
                  rejected |-> (status = NoResponse)]
  /\ UNCHANGED <<mounted, isGameOver, activePlayerId, playerId, gameStateId,
                 isFirstLoadRef, timer, intervals, notification, permission,
                 requestPending, lastEffect, overSinceMount, timerPolled>>
  /\ UNCHANGED storeVars

\* the user answers the permission prompt
UserDecides(answer) ==
  /\ requestPending
  /\ requestPending' = FALSE
  /\ permission' = IF permission = "default" THEN answer ELSE permission
  /\ UNCHANGED <<mounted, isGameOver, activePlayerId, playerId, gameStateId,
                 isFirstLoadRef, timer, intervals, notification, inflight,
                 applied, lastEffect, lastPoll, overSinceMount, timerPolled>>
  /\ UNCHANGED storeVars

\* the steps of the component and of its timers
ViewSteps ==
  \/ \E over \in BOOLEAN, active \in Players,
        pid \in {"P1", NullPlayer}, version \in Versions :
       Mount(over, active, pid, version)
  \/ \E over \in BOOLEAN, active \in Players, version \in Versions :
       Render(over, active, version)
  \/ Unmount
  \/ \E i \in intervals : Tick(i)
  \/ ContextUpdate

\* the view on every platform, with a server that answers each poll with 200
NextView ==
  \/ ViewSteps
  \/ \E sent \in Versions, version \in Versions :
       PollResponse(sent, 200, version)
  \/ \E answer \in {"granted", "denied"} : UserDecides(answer)

\* the view with every outcome of a poll
NextPoll ==
  \/ ViewSteps
  \/ \E sent \in Versions, status \in Statuses \cup {NoResponse},
        version \in Versions :
       PollResponse(sent, status, version)

\* ---------------------------------------------------------- specifications
\* the store while no view runs, and the view while the store is at rest
ViewAtRest ==
  /\ ViewInit
  /\ notification = [api |-> "unsupported", ctorThrows |-> FALSE]

StoreAtRest ==
  /\ StoreInit
  /\ \A t \in StoreTypes : storeUrlForType[t] /\ games[t] = << >>

InitStore == StoreInit /\ ViewAtRest
InitView == ViewInit /\ StoreAtRest

SpecStore == InitStore /\ [][NextStore]_vars

\* the store with a backend that can be unavailable when the table is created
NextFault ==
  \/ NextStore
  \/ \E p \in Procs : CreateGamesTableFails(p)

\* the embedded backend and one of the two networked backends configured:
\* every pairing of an id scheme with a driver class occurs
FaultConfigs == {u \in Configs : u["local"] /\ (u["pg"] # u["pg-deprecated"])}

InitFault == InitStore /\ storeUrlForType \in FaultConfigs

SpecFault == InitFault /\ [][NextFault]_vars

SpecView == InitView /\ [][NextView]_vars

\* the polls of a view on a platform without notifications
InitPoll == ViewAtRest /\ StoreAtRest

SpecPoll == InitPoll /\ [][NextPoll]_vars

\* ------------------------------------------------- store: observations
AllIds == GameIds \cup ResidentIds

\* records of a session id in one table, and in all tables together
RecordsIn(t, gameId) == WhereGameId(games[t], gameId)
RecordCount(gameId) ==
  Len(RecordsIn("pg", gameId)) + Len(RecordsIn("pg-deprecated", gameId))
    + Len(RecordsIn("local", gameId))

IsDone(p, op) == calls[p].pc = "done" /\ calls[p].op = op
Routed(p) == calls[p].db # NoDb

\* the text stored for the session of call p in the table p resolved to
StoredFor(p) == RecordsIn(calls[p].db, calls[p].gameId)

\* a and b ran one after the other / at overlapping times
Before(a, b) == a \in calls[b].doneBefore
Overlap(a, b) == ~Before(a, b) /\ ~Before(b, a)

\* a and b are the only saveGame calls that were started
OnlySaves(a, b) ==
  \A w \in Procs \ {a, b} : calls[w].op # "save"

TwoSavesDone(a, b) ==
  /\ a # b
  /\ IsDone(a, "save") /\ IsDone(b, "save")
  /\ Routed(a)
  /\ OnlySaves(a, b)

C2_SequentialSaves ==
  \A a, b \in Procs :
    (TwoSavesDone(a, b) /\ Before(a, b)) =>
      /\ calls[a].result = "ok" /\ calls[b].result = "ok"
      /\ RecordCount(calls[b].gameId) = 1
      /\ StoredFor(b)[1].game = JSONstringify(calls[b].gameJSON[1])

\* the same for every session the SqliteDb truthiness test does not hit
C2_SequentialSavesNonEmptyOrPg ==
  \A a, b \in Procs :
    (/\ TwoSavesDone(a, b) /\ Before(a, b)
     /\ ~(IsSqlite(calls[a].db) /\ calls[a].gameId = EmptyId)) =>
      /\ calls[a].result = "ok" /\ calls[b].result = "ok"
      /\ RecordCount(calls[b].gameId) = 1
      /\ StoredFor(b)[1].game = JSONstringify(calls[b].gameJSON[1])

\* no other saveGame ran between the start of s and the end of g
NoWriterBetween(s, g) ==
  \A w \in Procs \ {s, g} :
    calls[w].op = "save" => (Before(w, s) \/ Before(g, w))

SaveThenGet(s, g) ==
  /\ IsDone(s, "save") /\ IsDone(g, "get")
  /\ Routed(s)
  /\ Before(s, g)
  /\ NoWriterBetween(s, g)

\* C3 as stated: saveGame(id, p) followed immediately by getGame(id) returns
\* p, on the insert path and on the update path.
C3_RoundTrip ==
  \A s, g \in Procs :
    SaveThenGet(s, g) => calls[g].ret = calls[s].gameJSON

\* the same for every session the SqliteDb truthiness test does not hit
C3_RoundTripNonEmptyOrPg ==
  \A s, g \in Procs :
    (SaveThenGet(s, g) /\ ~(IsSqlite(calls[s].db) /\ calls[s].gameId = EmptyId)) =>
      calls[g].ret = calls[s].gameJSON

\* C4 as stated: getGame on a session id without a record returns the absence
\* value under every endpoint configuration.
C4_UnknownIsAbsent ==
  \A g \in Procs :
    (IsDone(g, "get") /\ RecordCount(calls[g].gameId) = 0) =>
      calls[g].result = "absent"

\* C4 amended: getGame on a session id without a record, one of whose
\* preferred kinds is configured, returns the absence value.
C4_UnknownRoutedIsAbsent ==
  \A g \in Procs :
    (IsDone(g, "get") /\ RecordCount(calls[g].gameId) = 0 /\ Routed(g)) =>
      calls[g].result = "absent" /\ calls[g].ret = << >>

C4_Witness ==
  \E g \in Procs :
    /\ IsDone(g, "get") /\ RecordCount(calls[g].gameId) = 0 /\ Routed(g)
    /\ calls[g].result = "absent"
    /\ games[calls[g].db] # << >>

\* C5: a session id with the prefix "v2:" resolves to the pg driver whenever
\* the pg endpoint is configured, whatever the other two endpoints.
C5_V2PrefersPg ==
  \A p \in Procs :
    (/\ calls[p].pc # "idle"
     /\ StartsWith(calls[p].gameId, V2Prefix)
     /\ storeUrlForType["pg"]) =>
      calls[p].db = "pg" /\ instanceCache["pg"]

C5_Witness ==
  \E p \in Procs :
    /\ calls[p].pc # "idle"
    /\ StartsWith(calls[p].gameId, V2Prefix)
    /\ storeUrlForType["pg"] /\ storeUrlForType["pg-deprecated"]
    /\ storeUrlForType["local"]
    /\ calls[p].db = "pg"

\* C6: a session id without the prefix "v2:" resolves to the pg-deprecated
\* driver whenever that endpoint is configured, whatever the other two.
C6_LegacyPrefersPgDeprecated ==
  \A p \in Procs :
    (/\ calls[p].pc # "idle"
     /\ ~StartsWith(calls[p].gameId, V2Prefix)
     /\ storeUrlForType["pg-deprecated"]) =>
      calls[p].db = "pg-deprecated" /\ instanceCache["pg-deprecated"]

C6_Witness ==
  \E p \in Procs :
    /\ calls[p].pc # "idle"
    /\ ~StartsWith(calls[p].gameId, V2Prefix)
    /\ storeUrlForType["pg"] /\ storeUrlForType["pg-deprecated"]
    /\ storeUrlForType["local"]
    /\ calls[p].db = "pg-deprecated"

\* C7: at most one record per session id across all backends: the records of
\* an id lie in the one table its id resolves to, every call on that id
\* resolved to that kind, and no two rows of a table share a session id.
C7_OneRecordPerSession ==
  \A gameId \in AllIds :
    /\ RecordCount(gameId) <= 1
    /\ \A t \in StoreTypes :
         RecordsIn(t, gameId) # << >> => t = getDbForGameId(storeUrlForType, gameId)
    /\ \A p, q \in Procs :
         (/\ calls[p].pc # "idle" /\ calls[q].pc # "idle"
          /\ calls[p].gameId = gameId /\ calls[q].gameId = gameId) =>
           calls[p].db = calls[q].db

C7_Witness ==
  \E a, b \in Procs :
    /\ TwoSavesDone(a, b) /\ Overlap(a, b)
    /\ calls[b].result = "DuplicateKey"
    /\ RecordCount(calls[a].gameId) = 1
    /\ \E r \in ResidentIds : RecordCount(r) = 1

\* -------------------------------------------------------- view: claims
\* the view is in Polling: a timer is live for inputs that ask for polling
Polling == intervals # {} /\ ~isGameOver /\ activePlayerId # playerId

\* C8: when the view is in Polling and the next render has activePlayerId
\* equal to the local player, the timer is cancelled, no new timer is started
\* and exactly one notification attempt is made in that re-evaluation.
C8_TurnArrives ==
  [][(mounted /\ mounted' /\ Polling /\ activePlayerId' = playerId') =>
       /\ intervals' = {}
       /\ timer' = NoTimer
       /\ lastEffect'.fromPolling
       /\ lastEffect'.attempts = 1]_vars

C8_Witness ==
  /\ mounted
  /\ activePlayerId = playerId
  /\ lastEffect.fromPolling
  /\ lastEffect.attempts = 1
  /\ intervals = {}

\* C9: while the view is mounted a timer is live exactly when the game is not
\* over and the active player is not the local player; a view whose isGameOver
\* was true since its mount has no timer, and no timer tick of it issued a poll.
C9_TimerIffShouldPoll ==
  /\ mounted =>
       ((intervals # {}) <=> (~isGameOver /\ activePlayerId # playerId))
  /\ (mounted /\ overSinceMount) => (intervals = {} /\ ~timerPolled)

C9_Witness ==
  /\ mounted
  /\ overSinceMount
  /\ activePlayerId # playerId
  /\ ~isFirstLoadRef
  /\ intervals = {}
  /\ SumInflight(Versions) > 0

\* C10: at most one timer is live, it is the timer of the last effect run
\* (the previous one was cancelled), and no timer is live after unmount.
C10_AtMostOneTimer ==
  /\ Cardinality(intervals) <= 1
  /\ \A i \in intervals : i.id = timer
  /\ ~mounted => intervals = {}

C10_Witness ==
  /\ mounted
  /\ lastEffect.fromPolling
  /\ Cardinality(intervals) = 1

\* ------------------------------------------------ store: further claims
\* call p was started in this step
Starts(p) == calls[p].pc = "idle" /\ calls'[p].pc # "idle"

\* none of the preferred kinds of the session id has its endpoint set
NoPreferredKind(gameId) ==
  IF StartsWith(gameId, V2Prefix)
  THEN ~storeUrlForType["pg"] /\ ~storeUrlForType["local"]
  ELSE ~storeUrlForType["pg-deprecated"] /\ ~storeUrlForType["local"]

\* C14: under every endpoint configuration, getGame and saveGame on a session
\* id none of whose preferred kinds is configured fail with
\* NoBackendConfigured at once; the call constructs no driver instance,
\* creates no table and reads or writes no record of any backend.
C14_NoBackendConfigured ==
  [][\A p \in Procs :
       (Starts(p) /\ NoPreferredKind(calls'[p].gameId)) =>
         /\ calls'[p].pc = "done"
         /\ calls'[p].result = "NoBackendConfigured"
         /\ calls'[p].ret = << >>
         /\ calls'[p].issued = << >>
         /\ constructed' = constructed
         /\ instanceCache' = instanceCache
         /\ tableExists' = tableExists
         /\ games' = games]_vars

C14_Witness ==
  \E s, g \in Procs :
    /\ IsDone(s, "save") /\ IsDone(g, "get")
    /\ NoPreferredKind(calls[s].gameId)
    /\ calls[s].result = "NoBackendConfigured"
    /\ calls[g].result = "NoBackendConfigured"
    /\ \A t \in StoreTypes : constructed[t] = 0
    /\ \E t \in StoreTypes : games[t] # << >>

\* call p ended in this step
Completes(p) == calls[p].pc # "done" /\ calls'[p].pc = "done"

\* a saveGame that ended before p was started left a record for the session
HadRecordAtStart(p) ==
  \E c \in calls[p].doneBefore : calls[c].op = "save" /\ calls[c].result = "ok"

\* another saveGame on the record runs at a time that overlaps call p
ConcurrentSave(p) ==
  \E q \in Procs \ {p} :
    /\ calls[q].pc # "idle" /\ calls[q].op = "save"
    /\ HadRecordAtStart(q)
    /\ Overlap(p, q)

AllDone == \A q \in Procs : calls[q].pc \in {"idle", "done"}

\* the end of a saveGame that ran concurrently with another on an existing record
ConcurrentSaveEnds(p) ==
  /\ Completes(p)
  /\ calls[p].op = "save"
  /\ HadRecordAtStart(p)
  /\ ConcurrentSave(p)

\* C16 as stated: concurrent saveGame calls on a session id that has a record
\* all succeed (none fails with DuplicateKey), the id keeps exactly one
\* record, and when the last of them has completed the record holds the
\* payload of that call.
C16_ConcurrentSavesOnRecord ==
  [][\A p \in Procs :
       ConcurrentSaveEnds(p) =>
         /\ calls'[p].result = "ok"
         /\ RecordCount(calls[p].gameId)' = 1
         /\ AllDone' =>
              StoredFor(p)'[1].game = JSONstringify(calls[p].gameJSON[1])]_vars

\* the same for every session the SqliteDb truthiness test does not hit
C16_ConcurrentSavesNonEmptyOrPg ==
  [][\A p \in Procs :
       (/\ ConcurrentSaveEnds(p)
        /\ ~(IsSqlite(calls[p].db) /\ calls[p].gameId = EmptyId)) =>
         /\ calls'[p].result = "ok"
         /\ RecordCount(calls[p].gameId)' = 1
         /\ AllDone' =>
              StoredFor(p)'[1].game = JSONstringify(calls[p].gameJSON[1])]_vars

\* two overlapping saves on an existing record have both ended
C16_BothEnded ==
  \E a, b \in Procs :
    /\ a # b
    /\ IsDone(a, "save") /\ IsDone(b, "save")
    /\ HadRecordAtStart(a) /\ HadRecordAtStart(b)
    /\ Overlap(a, b)
    /\ calls[a].result = "ok" /\ calls[b].result = "ok"
    /\ calls[a].gameId # EmptyId

\* the statements a call issues on its driver after ensureSchema
DriverOps == {"exists", "insert", "update", "fetch"}

\* call p left createGamesTableIfNotExists in this step
SchemaEnds(p) == calls[p].pc = "schema" /\ calls'[p].pc # "schema"

\* what call p issued on its driver, in order: ensureSchema comes first, and a
\* statement after it was issued only when ensureSchema succeeded
SchemaFirst(p) ==
  /\ calls[p].issued # << >> => calls[p].issued[1] = "ensureSchema"
  /\ \A i \in 2..Len(calls[p].issued) :
       /\ calls[p].issued[i] \in DriverOps
       /\ tableExists[calls[p].db]
       /\ calls[p].result # "BackendUnavailable"
  /\ calls[p].result \in {"ok", "DuplicateKey", "absent", "found"} =>
       Len(calls[p].issued) > 1
  /\ calls[p].result = "BackendUnavailable" =>
       /\ calls[p].pc = "done"
       /\ calls[p].issued = <<"ensureSchema">>
       /\ calls[p].ret = << >>

\* C17: in every getGame and saveGame execution ensureSchema on the resolved
\* driver completes successfully before any exists, insert, update or fetch
\* is issued on it; when ensureSchema fails none of them is issued, no table
\* or record changes and the call ends with that failure; ensureSchema on a
\* table that exists changes no record.
C17_EnsureSchemaFirst ==
  /\ [](\A p \in Procs : SchemaFirst(p))
  /\ [][\A p \in Procs :
         SchemaEnds(p) =>
           /\ calls'[p].issued = <<"ensureSchema">>
           /\ IF calls'[p].result = "BackendUnavailable"
              THEN games' = games /\ tableExists' = tableExists
              ELSE /\ calls'[p].result = "none"
                   /\ tableExists'[calls[p].db]
                   /\ tableExists[calls[p].db] => games' = games]_vars

C17_Witness ==
  \E a, b, c \in Procs :
    /\ IsDone(a, "save") /\ calls[a].result = "BackendUnavailable"
    /\ IsDone(b, "save") /\ calls[b].issued = <<"ensureSchema", "exists", "insert">>
    /\ IsDone(c, "get") /\ calls[c].issued = <<"ensureSchema", "fetch">>
    /\ Before(b, c) /\ calls[c].ret = calls[b].gameJSON
    /\ RecordCount(calls[b].gameId) = 1
    /\ \E r \in ResidentIds : RecordCount(r) = 1

\* a getGame or saveGame call resolved to the kind t
Selected(t) == \E p \in Procs : calls[p].pc # "idle" /\ calls[p].db = t

\* C18: after any sequence of getGame and saveGame calls at most one driver
\* instance was constructed per kind: the constructor ran once for a kind that
\* a call resolved to, from the first such resolution on, the cache holds
\* that instance for every later resolution, and it never ran for a kind that
\* no call resolved to or whose endpoint is not configured.
C18_OneInstancePerKind ==
  \A t \in StoreTypes :
    /\ constructed[t] <= 1
    /\ constructed[t] = 1 <=> Selected(t)
    /\ instanceCache[t] <=> constructed[t] = 1
    /\ ~storeUrlForType[t] => constructed[t] = 0

C18_Witness ==
  \E t \in StoreTypes :
    /\ constructed[t] = 1
    /\ \A p \in Procs : calls[p].pc = "done" /\ calls[p].db = t
    /\ \E u \in StoreTypes \ {t} : storeUrlForType[u] /\ constructed[u] = 0

\* C19 as stated: for both driver variants and every session id, the empty
\* string included, exists(sessionId) is true if and only if exactly one
\* record with that id is stored in the driver's table.
C19_ExistsIffOneRecord ==
  \A t \in StoreTypes, gameId \in AllIds :
    tableExists[t] =>
      (hasSavedGame(t, games[t], gameId) <=> Len(RecordsIn(t, gameId)) = 1)

\* the same for every session the SqliteDb truthiness test does not hit
C19_ExistsIffOneRecordNonEmptyOrPg ==
  \A t \in StoreTypes, gameId \in AllIds :
    (tableExists[t] /\ ~(IsSqlite(t) /\ gameId = EmptyId)) =>
      (hasSavedGame(t, games[t], gameId) <=> Len(RecordsIn(t, gameId)) = 1)

\* exists was true for a call on a record and false for a call without one
C19_BothAnswers ==
  \E a, b \in Procs :
    /\ IsDone(a, "save") /\ ~calls[a].hasSavedGame /\ calls[a].result = "ok"
    /\ IsDone(b, "save") /\ calls[b].hasSavedGame /\ calls[b].result = "ok"
    /\ IsSqlite(calls[a].db)

\* ------------------------------------------------- view: further claims
\* the effect body ran to its end in this step: at mount, or for a render
\* that changed isGameOver or activePlayerId
EffectRan ==
  /\ mounted'
  /\ ~mounted \/ <<isGameOver', activePlayerId'>> # <<isGameOver, activePlayerId>>

\* C11 as stated: a notification attempt is made only in a re-evaluation
\* before which activePlayerId was not the local player and after which it
\* is, never at the first observation since mount and never when
\* activePlayerId was the local player before (only isGameOver changed).
C11_AttemptOnlyOnTurnArrival ==
  [][(EffectRan /\ lastEffect'.attempts = 1) =>
       /\ mounted /\ ~isFirstLoadRef
       /\ activePlayerId # playerId
       /\ activePlayerId' = playerId']_vars

\* what the effect does: an attempt in every re-evaluation after the first
\* that finds activePlayerId equal to the local player
C11_AttemptWhenActiveAfterFirst ==
  [][EffectRan =>
       (lastEffect'.attempts = 1 <=>
          (mounted /\ ~isFirstLoadRef /\ activePlayerId' = playerId'))]_vars

\* an attempt was made in a re-evaluation of a view that was not polling
C11_AttemptNotFromPolling ==
  /\ mounted
  /\ lastEffect.attempts = 1
  /\ ~lastEffect.fromPolling

\* C12 as stated: the notification path never raises: on a platform without
\* notifications, without granted permission, or whose permission request
\* throws, the effect runs to its end without notifying and its timer
\* decision is carried out.
C12_NotificationNeverRaises ==
  /\ ~lastEffect.raised
  /\ mounted =>
       /\ (intervals # {}) <=> ShouldPoll(isGameOver, activePlayerId, playerId)
       /\ lastEffect.shown = 1 =>
            (isNotificationsSupported /\ permission = "granted")

\* the same on every platform whose requestPermission does not throw
C12_NeverRaisesUnlessRequestThrows ==
  notification.api # "throwing" =>
    /\ ~lastEffect.raised
    /\ mounted =>
         /\ (intervals # {}) <=> ShouldPoll(isGameOver, activePlayerId, playerId)
         /\ lastEffect.shown = 1 =>
              (isNotificationsSupported /\ permission = "granted")

\* an attempt that showed nothing: permission denied, or the constructor threw
C12_AttemptWithoutNotification ==
  /\ mounted
  /\ lastEffect.attempts = 1 /\ lastEffect.shown = 0
  /\ permission = "denied" \/ notification.ctorThrows
  /\ lastEffect.fromPolling

\* a poll settled in this step
Settles == SumInflight(Versions)' < SumInflight(Versions)

\* the props and the timers of the view are what they were
ViewUntouched ==
  UNCHANGED <<mounted, isGameOver, activePlayerId, playerId, gameStateId,
              timer, intervals>>

\* C13 as stated: a poll whose response status is not 200, or whose network
\* call fails, produces no update: onUpdate is not invoked, the state of the
\* view is unchanged, no error leaves the poll and the timer stays live.
C13_FailedPollIsSilent ==
  [][(Settles /\ lastPoll'.status # 200) =>
       /\ lastPoll'.onUpdate = 0
       /\ applied' = applied
       /\ ViewUntouched
       /\ ~lastPoll'.rejected]_vars

\* the same without the promise of updateGameState: it rejects exactly when
\* the fetch rejected
C13_FailedPollNoUpdate ==
  [][(Settles /\ lastPoll'.status # 200) =>
       /\ lastPoll'.onUpdate = 0
       /\ applied' = applied
       /\ ViewUntouched
       /\ lastPoll'.rejected <=> lastPoll'.status = NoResponse]_vars

\* a poll of a live timer got status 500 after an update had been passed on
C13_IgnoredWhilePolling ==
  /\ mounted
  /\ intervals # {}
  /\ timerPolled
  /\ lastPoll.status = 500
  /\ applied # << >>

\* C15: every poll response with status 200 invokes onUpdate exactly once
\* with the payload of that response, whatever the view holds at that
\* moment: no version is compared and it does not matter whether the view is
\* polling, stopped or unmounted, so the payload passed on last is that of
\* the response that arrived last.
C15_EveryOkResponseApplied ==
  [][(Settles /\ lastPoll'.status = 200) =>
       /\ lastPoll'.onUpdate = 1
       /\ lastPoll'.json # << >>
       /\ applied' = lastPoll'.json
       /\ ViewUntouched]_vars

\* after unmount a response with the payload of version 0 was passed on,
\* although the view had held a later version (a poll that sent it is still
\* in flight)
C15_Witness ==
  /\ ~mounted
  /\ timerPolled
  /\ lastPoll.status = 200
  /\ applied = <<0>>
  /\ \E v \in Versions : v > 0 /\ inflight[v] > 0

\* C20 as stated: every poll the timer issues sends the gameStateId the view
\* holds at that moment, also after the version was raised while isGameOver
\* and activePlayerId stayed as they were.  (A step that adds a poll is a
\* timer tick or a call through the context; the latter sends the current
\* gameStateId.)
C20_TimerPollSendsCurrentVersion ==
  [][\A v \in Versions :
       (mounted /\ inflight'[v] > inflight[v]) => v = gameStateId]_vars

\* what the timer sends: the gameStateId of the render whose effect started it
C20_TimerPollSendsCapturedVersion ==
  [][\A v \in Versions :
       (mounted /\ inflight'[v] > inflight[v]) =>
         (v = gameStateId \/ \E i \in intervals : i.gameStateId = v)]_vars

\* a live timer whose callback holds an older gameStateId than the view
C20_StaleTimer ==
  /\ mounted
  /\ \E i \in intervals : i.gameStateId < gameStateId
  /\ applied = <<gameStateId>>

====
